---- MODULE Spec2Model ----
(***************************************************************************)
(* The metadata catalog of modelstore: BlobStorage (storage/blob_storage.py)*)
(* and the ModelStore facade (model_store.py) over a flat object backend    *)
(* offering push, pull, remove and list.                                    *)
(*                                                                          *)
(* Every catalog operation is a small program over the backend: a frame     *)
(* (operation, arguments, locals, program counter) that StepOf advances by  *)
(* one backend call.  Spec runs every call to its end in one action (one    *)
(* caller, one call at a time); SpecConc lets two callers interleave the    *)
(* backend calls of their calls.  ModelStore.upload hands over to the       *)
(* library manager, which pushes the archive (BlobStorage.upload) and then  *)
(* calls set_meta_data.                                                     *)
(***************************************************************************)
EXTENDS Integers, Sequences, FiniteSets, TLC

\* ------------------------------------------------------------------ bounds
\* Creation timestamps are drawn from 1..MaxTime.
MaxTime == 2

\* ---------------------------------------------------------------- universe
Domains == {"d1"}
\* The domains the registry of domains can hold: those of the calls and
\* two more, which only the listings of domains read (SpecListing).
ListedDomains == Domains \cup {"d2", "d3"}
Models == {"m1", "m2"}
DELETED == "deleted"
UserStates == {"prod"}
\* "" is the name is_valid_state_name rejects.
StateNames == UserStates \cup {DELETED, ""}
Times == 1..MaxTime
\* The time of the calls that write no metadata record of their own.
StateTime == CHOOSE t \in Times : \A u \in Times : t <= u
NoState == "-"

\* ----------------------------------------------------------- state names
ReservedModelStates == {DELETED}

is_reserved_state(s) == s \in ReservedModelStates

is_valid_state_name(s) == s \notin {"", " "} /\ ~is_reserved_state(s)

\* -------------------------------------------------------------- PathScheme
get_models_path(d, s) == <<"versions", d, s>>

get_domains_path == <<"domains", "-", "-">>

get_domain_path(d) == get_domains_path \o <<d>>

get_model_states_path == <<"model_states", "-", "-">>

get_model_state_path(s) == get_model_states_path \o <<s>>

get_archive_path(d, m) == <<"archive", d, "-", m>>

_get_metadata_path(d, m, s) == get_models_path(d, s) \o <<m>>

Keys ==
  {_get_metadata_path(d, m, s) : d \in Domains, m \in Models, s \in StateNames \cup {NoState}}
    \cup {get_domain_path(d) : d \in ListedDomains}
    \cup {get_model_state_path(s) : s \in StateNames}
    \cup {get_archive_path(d, m) : d \in Domains, m \in Models}

\* ----------------------------------------------------------------- objects
NoObj == [kind |-> "none", domain |-> "-", model_id |-> "-", state_name |-> "-", created |-> 0]

\* The metadata record of model m of domain d, created at t; its storage
\* location is the archive path of (d, m).
MetaRecord(d, m, t) ==
  [kind |-> "meta", domain |-> d, model_id |-> m, state_name |-> "-", created |-> t]

StateData(s, t) ==
  [kind |-> "state", domain |-> "-", model_id |-> "-", state_name |-> s, created |-> t]

ArchiveObj(d, m) ==
  [kind |-> "archive", domain |-> d, model_id |-> m, state_name |-> "-", created |-> 0]

EmptyStore == [k \in Keys |-> NoObj]

\* ----------------------------------------------------------------- backend
\* fault: "none", or the way this backend call fails for a reason other than
\* the key being absent.
Exists(st, k) == st[k] # NoObj

Push(st, k, obj) == [st EXCEPT ![k] = obj]

Remove(st, k) == [st EXCEPT ![k] = NoObj]

\* The outcome of a pull: the object, or the exception the pull raises.  A
\* missing key raises FilePullFailedException.
Pull(st, k, fault) ==
  IF fault # "none" THEN [exc |-> fault, obj |-> NoObj]
  ELSE IF Exists(st, k) THEN [exc |-> "none", obj |-> st[k]]
  ELSE [exc |-> "FilePullFailed", obj |-> NoObj]

\* The keys directly under a prefix.
KeysUnder(st, prefix) == {k \in Keys : SubSeq(k, 1, 3) = prefix /\ Exists(st, k)}

\* All the orders in which the backend may list the objects under a prefix.
RECURSIVE Orders(_)
Orders(ks) ==
  IF ks = {} THEN {<<>>}
  ELSE UNION {{<<k>> \o rest : rest \in Orders(ks \ {k})} : k \in ks}

\* Insertion of an object into a list kept in ascending order of "created";
\* objects of equal timestamp keep their listing order.
RECURSIVE InsertByCreated(_, _)
InsertByCreated(sorted, obj) ==
  IF sorted = <<>> THEN <<obj>>
  ELSE IF Head(sorted).created <= obj.created
       THEN <<Head(sorted)>> \o InsertByCreated(Tail(sorted), obj)
       ELSE <<obj>> \o sorted

RECURSIVE sorted_by_created(_)
sorted_by_created(objs) ==
  IF objs = <<>> THEN <<>>
  ELSE InsertByCreated(sorted_by_created(SubSeq(objs, 1, Len(objs) - 1)), objs[Len(objs)])

\* Mutant: the objects are returned in the order of the listing.
_read_json_objects_Unsorted(st, order) == [i \in 1..Len(order) |-> st[order[i]]]

\* _read_json_objects: the objects under a prefix, listed by the backend in
\* the order given and sorted by creation timestamp.
_read_json_objects(st, order) == sorted_by_created([i \in 1..Len(order) |-> st[order[i]]])

\* ------------------------------------------------------------------ frames
\* A running operation.  res is "running" until the operation returns ("ok")
\* or raises (the exception's name); obj, lst and flag hold what it returns;
\* at is the place it returned or raised from; was is the lifecycle of the
\* call's model when the call was made.
Frame(op, pc, d, m, s, t, was) ==
  [op |-> op, pc |-> pc, d |-> d, m |-> m, s |-> s, t |-> t,
   todo |-> <<>>, buf |-> NoObj, res |-> "running", at |-> "entry",
   obj |-> NoObj, lst |-> <<>>, flag |-> FALSE, was |-> was]

Idle == Frame("idle", "done", "-", "-", "-", 0, "-")

Goto(fr, pc) == [fr EXCEPT !.pc = pc]

Return(fr) == [fr EXCEPT !.at = fr.pc, !.pc = "done", !.res = "ok"]

ReturnObj(fr, obj) == [fr EXCEPT !.at = fr.pc, !.pc = "done", !.res = "ok", !.obj = obj]

ReturnList(fr, lst) == [fr EXCEPT !.at = fr.pc, !.pc = "done", !.res = "ok", !.lst = lst]

ReturnFlag(fr, flag) == [fr EXCEPT !.at = fr.pc, !.pc = "done", !.res = "ok", !.flag = flag]

Raise(fr, exc) == [fr EXCEPT !.at = fr.pc, !.pc = "done", !.res = exc]

Next2(st, fr) == [st |-> st, fr |-> fr]

\* --------------------------------------------------------------- BlobStorage
\* state_exists: a pull of the state's registry entry; every exception of
\* the pull is caught and answered with False.
state_exists(st, s, fault) == Pull(st, get_model_state_path(s), fault).exc = "none"

\* Mutant: set_meta_data rewrites the copies of the model under its states.
SetMetaDataStep_ResyncsCopies(st, fr, fault) ==
  LET rec == MetaRecord(fr.d, fr.m, fr.t) IN
  IF fault # "none" THEN Next2(st, Raise(fr, "BackendError"))
  ELSE IF fr.pc = "smd_push1"
       THEN Next2(Push(st, _get_metadata_path(fr.d, fr.m, NoState), rec), Goto(fr, "smd_push2"))
       ELSE Next2([k \in Keys |->
                     IF k = get_domain_path(fr.d)
                        \/ (\E s \in StateNames : k = _get_metadata_path(fr.d, fr.m, s) /\ Exists(st, k))
                     THEN rec ELSE st[k]],
                  ReturnObj(fr, rec))

\* Mutant: set_meta_data pushes to the model's path only.
SetMetaDataStep_CanonicalOnly(st, fr, fault) ==
  LET rec == MetaRecord(fr.d, fr.m, fr.t) IN
  IF fault # "none" THEN Next2(st, Raise(fr, "BackendError"))
  ELSE IF fr.pc = "smd_push1"
       THEN Next2(Push(st, _get_metadata_path(fr.d, fr.m, NoState), rec), Goto(fr, "smd_push2"))
       ELSE Next2(Push(st, _get_metadata_path(fr.d, fr.m, NoState), rec), ReturnObj(fr, rec))

\* Mutant: the first push of set_meta_data goes to the domain's path too.
SetMetaDataStep_DomainOnly(st, fr, fault) ==
  LET rec == MetaRecord(fr.d, fr.m, fr.t) IN
  IF fault # "none" THEN Next2(st, Raise(fr, "BackendError"))
  ELSE IF fr.pc = "smd_push1"
       THEN Next2(Push(st, get_domain_path(fr.d), rec), Goto(fr, "smd_push2"))
       ELSE Next2(Push(st, get_domain_path(fr.d), rec), ReturnObj(fr, rec))

\* Mutant: set_meta_data pushes to the domain's path first.
SetMetaDataStep_DomainFirst(st, fr, fault) ==
  LET rec == MetaRecord(fr.d, fr.m, fr.t) IN
  IF fault # "none" THEN Next2(st, Raise(fr, "BackendError"))
  ELSE IF fr.pc = "smd_push1"
       THEN Next2(Push(st, get_domain_path(fr.d), rec), Goto(fr, "smd_push2"))
       ELSE Next2(Push(st, _get_metadata_path(fr.d, fr.m, NoState), rec), ReturnObj(fr, rec))

\* set_meta_data: push to the model's path, then to the domain's path.
SetMetaDataStep(st, fr, fault) ==
  LET rec == MetaRecord(fr.d, fr.m, fr.t) IN
  IF fault # "none" THEN Next2(st, Raise(fr, "BackendError"))
  ELSE IF fr.pc = "smd_push1"
       THEN Next2(Push(st, _get_metadata_path(fr.d, fr.m, NoState), rec), Goto(fr, "smd_push2"))
       ELSE Next2(Push(st, get_domain_path(fr.d), rec), ReturnObj(fr, rec))

\* Mutant: check_model_exists answers False for a record that was found.
check_model_exists_FoundIsFalse(exc) ==
  IF exc \in {"none", "ModelNotFound", "FilePullFailed"} THEN "False" ELSE exc

\* What ModelStore.check_model_exists makes of the outcome of get_meta_data:
\* "True", "False", or the exception it lets through.
check_model_exists(exc) ==
  IF exc = "none" THEN "True"
  ELSE IF exc \in {"ModelNotFound", "FilePullFailed"} THEN "False"
  ELSE exc

\* How the caller of get_meta_data goes on with its outcome.
AfterGetMetaData(fr, exc, obj) ==
  IF fr.op = "get_meta_data"
  THEN IF exc = "none" THEN ReturnObj(fr, obj) ELSE Raise(fr, exc)
  ELSE LET c == check_model_exists(exc) IN
       IF fr.op = "check_model_exists"
       THEN IF c = "True" THEN ReturnFlag(fr, TRUE)
            ELSE IF c = "False" THEN ReturnFlag(fr, FALSE)
            ELSE Raise(fr, c)
       ELSE IF fr.op = "download"
       THEN IF exc = "none" THEN [fr EXCEPT !.pc = "dl_pull", !.buf = obj] ELSE Raise(fr, exc)
       ELSE \* ModelStore.upload
            IF c = "True" THEN Raise(fr, "ModelExists")
            ELSE IF c = "False" THEN Goto(fr, "up_archive")
            ELSE Raise(fr, c)

\* Mutant: get_meta_data does not look for the tombstone.
GetMetaDataStep_NoTombstoneLookup(st, fr, fault) ==
  LET r == Pull(st, _get_metadata_path(fr.d, fr.m, NoState), fault) IN
  IF r.exc = "none" THEN Next2(st, AfterGetMetaData(fr, "none", r.obj))
  ELSE IF r.exc = "FilePullFailed" THEN Next2(st, AfterGetMetaData(fr, "ModelNotFound", NoObj))
  ELSE Next2(st, AfterGetMetaData(fr, r.exc, NoObj))

\* get_meta_data: pull the model's path; on FilePullFailedException pull the
\* path under the reserved state to tell a deleted model from an unknown one.
GetMetaDataStep(st, fr, fault) ==
  IF fr.pc = "gmd_pull1"
  THEN LET r == Pull(st, _get_metadata_path(fr.d, fr.m, NoState), fault) IN
       IF r.exc = "none" THEN Next2(st, AfterGetMetaData(fr, "none", r.obj))
       ELSE IF r.exc = "FilePullFailed" THEN Next2(st, Goto(fr, "gmd_pull2"))
       ELSE Next2(st, AfterGetMetaData(fr, r.exc, NoObj))
  ELSE LET r == Pull(st, _get_metadata_path(fr.d, fr.m, DELETED), fault) IN
       IF r.exc = "none" THEN Next2(st, AfterGetMetaData(fr, "ModelDeleted", NoObj))
       ELSE IF r.exc = "FilePullFailed" THEN Next2(st, AfterGetMetaData(fr, "ModelNotFound", NoObj))
       ELSE Next2(st, AfterGetMetaData(fr, r.exc, NoObj))

\* BlobStorage.upload: push the archive.
UploadArchiveStep(st, fr, fault) ==
  IF fault # "none" THEN Next2(st, Raise(fr, "BackendError"))
  ELSE Next2(Push(st, get_archive_path(fr.d, fr.m), ArchiveObj(fr.d, fr.m)), Goto(fr, "smd_push1"))

\* download: without a model id, the id is read from the object at the
\* domain's path; then get_meta_data, then the pull of the archive.
DownloadStep(st, fr, fault) ==
  IF fr.pc = "dl_domain"
  THEN IF fault = "none" /\ Exists(st, get_domain_path(fr.d))
       THEN Next2(st, [fr EXCEPT !.pc = "gmd_pull1", !.m = st[get_domain_path(fr.d)].model_id])
       ELSE Next2(st, Raise(fr, "BackendError"))
  ELSE LET r == Pull(st, get_archive_path(fr.d, fr.m), fault) IN
       IF r.exc = "none" THEN Next2(st, ReturnObj(fr, fr.buf))
       ELSE Next2(st, Raise(fr, r.exc))

\* Mutant: list_models does not ask for the domain, and get_domain lets the
\* failure of its pull through.
GetDomainStep_NoDomainCheck(st, fr, fault) ==
  LET r == Pull(st, get_domain_path(fr.d), fault) IN
  IF fr.op # "get_domain" THEN Next2(st, Goto(fr, "lm_read"))
  ELSE IF r.exc = "none" THEN Next2(st, ReturnObj(fr, r.obj))
  ELSE Next2(st, Raise(fr, r.exc))

\* get_domain: pull the domain's path; FilePullFailedException becomes
\* DomainNotFoundException.  list_models goes on to read the models.
GetDomainStep(st, fr, fault) ==
  LET r == Pull(st, get_domain_path(fr.d), fault) IN
  IF r.exc = "none"
  THEN IF fr.op = "get_domain" THEN Next2(st, ReturnObj(fr, r.obj))
       ELSE Next2(st, Goto(fr, "lm_read"))
  ELSE IF r.exc = "FilePullFailed" THEN Next2(st, Raise(fr, "DomainNotFound"))
  ELSE Next2(st, Raise(fr, r.exc))

ModelIds(objs) == [i \in 1..Len(objs) |-> objs[i].model_id]

DomainNames(objs) == [i \in 1..Len(objs) |-> objs[i].domain]

StateNamesOf(objs) == [i \in 1..Len(objs) |-> objs[i].state_name]

\* list_models: the state, when given, must exist; the domain must exist;
\* then the model ids of the objects under the models path.
ListModelsStep(st, fr, fault, order) ==
  IF fr.pc = "lm_exists"
  THEN IF state_exists(st, fr.s, fault) THEN Next2(st, Goto(fr, "gd_pull"))
       ELSE Next2(st, Raise(fr, "Exception"))
  ELSE IF fault # "none" THEN Next2(st, Raise(fr, "BackendError"))
  ELSE Next2(st, ReturnList(fr, ModelIds(_read_json_objects(st, order))))

list_domains(st, fr, fault, order) ==
  IF fault # "none" THEN Next2(st, Raise(fr, "BackendError"))
  ELSE Next2(st, ReturnList(fr, DomainNames(_read_json_objects(st, order))))

\* Mutant: list_model_states returns every registered name.
list_model_states_Unfiltered(st, order) == StateNamesOf(_read_json_objects(st, order))

\* list_model_states: the registered names, the reserved ones filtered out.
list_model_states(st, order) ==
  SelectSeq(StateNamesOf(_read_json_objects(st, order)), is_valid_state_name)

\* Mutant: delete_model does not set the model to the reserved state.
DeleteLoop_NoTombstone(fr, todo) ==
  LET rest == SelectSeq(todo, LAMBDA x : ~is_reserved_state(x)) IN
  IF rest = <<>>
  THEN [fr EXCEPT !.pc = "del_remove", !.s = DELETED, !.todo = <<>>]
  ELSE [fr EXCEPT !.pc = "ums_exists", !.s = Head(rest), !.todo = Tail(rest)]

\* Mutant: delete_model unsets no state before it writes the tombstone.
DeleteLoop_SkipsUnset(fr, todo) ==
  [fr EXCEPT !.pc = "cms_exists", !.s = DELETED, !.todo = <<>>]

\* The next state of delete_model's loop over list_model_states(), or the
\* call of set_model_state with the reserved state after the loop.
\* unset_model_state returns at once for a reserved state.
DeleteLoop(fr, todo) ==
  LET rest == SelectSeq(todo, LAMBDA x : ~is_reserved_state(x)) IN
  IF rest = <<>>
  THEN [fr EXCEPT !.pc = "cms_exists", !.s = DELETED, !.todo = <<>>]
  ELSE [fr EXCEPT !.pc = "ums_exists", !.s = Head(rest), !.todo = Tail(rest)]

ListModelStatesStep(st, fr, fault, order) ==
  IF fault # "none" THEN Next2(st, Raise(fr, "BackendError"))
  ELSE IF fr.op = "list_model_states"
       THEN Next2(st, ReturnList(fr, list_model_states(st, order)))
       ELSE Next2(st, DeleteLoop(fr, list_model_states(st, order)))

\* Mutant: create_model_state raises for a state that exists already.
CreateModelStateStep_RaisesIfExists(st, fr, fault) ==
  LET after == IF fr.op = "create_model_state" THEN Return(fr) ELSE Goto(fr, "sms_pull") IN
  IF fr.pc = "cms_exists"
  THEN IF state_exists(st, fr.s, fault) THEN Next2(st, Raise(fr, "ValueError"))
       ELSE Next2(st, Goto(fr, "cms_push"))
  ELSE IF fault # "none" THEN Next2(st, Raise(fr, "BackendError"))
  ELSE Next2(Push(st, get_model_state_path(fr.s), StateData(fr.s, fr.t)), after)

\* Mutant: create_model_state pushes the registry entry of a state that
\* exists already.
CreateModelStateStep_AlwaysPushes(st, fr, fault) ==
  LET after == IF fr.op = "create_model_state" THEN Return(fr) ELSE Goto(fr, "sms_pull") IN
  IF fr.pc = "cms_exists" THEN Next2(st, Goto(fr, "cms_push"))
  ELSE IF fault # "none" THEN Next2(st, Raise(fr, "BackendError"))
  ELSE Next2(Push(st, get_model_state_path(fr.s), StateData(fr.s, fr.t)), after)

\* create_model_state after its name check: nothing is written when the
\* state exists; otherwise its registry entry is pushed.  set_model_state
\* calls it for a reserved state and goes on to copy the metadata.
CreateModelStateStep(st, fr, fault) ==
  LET after == IF fr.op = "create_model_state" THEN Return(fr) ELSE Goto(fr, "sms_pull") IN
  IF fr.pc = "cms_exists"
  THEN IF state_exists(st, fr.s, fault) THEN Next2(st, after)
       ELSE Next2(st, Goto(fr, "cms_push"))
  ELSE IF fault # "none" THEN Next2(st, Raise(fr, "BackendError"))
  ELSE Next2(Push(st, get_model_state_path(fr.s), StateData(fr.s, fr.t)), after)

\* Mutant: the copy under the state is stamped with the time of the call.
SetModelStateStep_StampsCopy(st, fr, fault) ==
  IF fr.pc = "sms_exists"
  THEN IF state_exists(st, fr.s, fault) THEN Next2(st, Goto(fr, "sms_pull"))
       ELSE Next2(st, Raise(fr, "ValueError"))
  ELSE IF fr.pc = "sms_pull"
  THEN LET r == Pull(st, _get_metadata_path(fr.d, fr.m, NoState), fault) IN
       IF r.exc = "none" THEN Next2(st, [fr EXCEPT !.pc = "sms_push", !.buf = r.obj])
       ELSE Next2(st, Raise(fr, r.exc))
  ELSE IF fault # "none" THEN Next2(st, Raise(fr, "BackendError"))
  ELSE Next2(Push(st, _get_metadata_path(fr.d, fr.m, fr.s), [fr.buf EXCEPT !.created = fr.t]),
             IF fr.op = "set_model_state" THEN Return(fr) ELSE Goto(fr, "del_remove"))

\* Mutant: set_model_state does not ask whether the state exists.
SetModelStateStep_NoStateCheck(st, fr, fault) ==
  IF fr.pc = "sms_exists" THEN Next2(st, Goto(fr, "sms_pull"))
  ELSE IF fr.pc = "sms_pull"
  THEN LET r == Pull(st, _get_metadata_path(fr.d, fr.m, NoState), fault) IN
       IF r.exc = "none" THEN Next2(st, [fr EXCEPT !.pc = "sms_push", !.buf = r.obj])
       ELSE Next2(st, Raise(fr, r.exc))
  ELSE IF fault # "none" THEN Next2(st, Raise(fr, "BackendError"))
  ELSE Next2(Push(st, _get_metadata_path(fr.d, fr.m, fr.s), fr.buf),
             IF fr.op = "set_model_state" THEN Return(fr) ELSE Goto(fr, "del_remove"))

\* Mutant: the model's metadata is removed as it is pulled, before the copy
\* under the state is pushed.
SetModelStateStep_RemovesFirst(st, fr, fault) ==
  IF fr.pc = "sms_exists"
  THEN IF state_exists(st, fr.s, fault) THEN Next2(st, Goto(fr, "sms_pull"))
       ELSE Next2(st, Raise(fr, "ValueError"))
  ELSE IF fr.pc = "sms_pull"
  THEN LET r == Pull(st, _get_metadata_path(fr.d, fr.m, NoState), fault) IN
       IF r.exc = "none"
       THEN Next2(IF fr.op = "delete_model" THEN Remove(st, _get_metadata_path(fr.d, fr.m, NoState)) ELSE st,
                  [fr EXCEPT !.pc = "sms_push", !.buf = r.obj])
       ELSE Next2(st, Raise(fr, r.exc))
  ELSE IF fault # "none" THEN Next2(st, Raise(fr, "BackendError"))
  ELSE Next2(Push(st, _get_metadata_path(fr.d, fr.m, fr.s), fr.buf),
             IF fr.op = "set_model_state" THEN Return(fr) ELSE Goto(fr, "del_remove"))

\* Mutant: set_model_state copies the record at the domain's path.
SetModelStateStep_CopiesDomainLatest(st, fr, fault) ==
  IF fr.pc = "sms_exists"
  THEN IF state_exists(st, fr.s, fault) THEN Next2(st, Goto(fr, "sms_pull"))
       ELSE Next2(st, Raise(fr, "ValueError"))
  ELSE IF fr.pc = "sms_pull"
  THEN LET r == Pull(st, get_domain_path(fr.d), fault) IN
       IF r.exc = "none" THEN Next2(st, [fr EXCEPT !.pc = "sms_push", !.buf = r.obj])
       ELSE Next2(st, Raise(fr, r.exc))
  ELSE IF fault # "none" THEN Next2(st, Raise(fr, "BackendError"))
  ELSE Next2(Push(st, _get_metadata_path(fr.d, fr.m, fr.s), fr.buf),
             IF fr.op = "set_model_state" THEN Return(fr) ELSE Goto(fr, "del_remove"))

\* set_model_state: a state that is not reserved must exist; then the
\* model's metadata is pulled and pushed to the path under the state.
\* delete_model goes on to remove the model's metadata.
SetModelStateStep(st, fr, fault) ==
  IF fr.pc = "sms_exists"
  THEN IF state_exists(st, fr.s, fault) THEN Next2(st, Goto(fr, "sms_pull"))
       ELSE Next2(st, Raise(fr, "ValueError"))
  ELSE IF fr.pc = "sms_pull"
  THEN LET r == Pull(st, _get_metadata_path(fr.d, fr.m, NoState), fault) IN
       IF r.exc = "none" THEN Next2(st, [fr EXCEPT !.pc = "sms_push", !.buf = r.obj])
       ELSE Next2(st, Raise(fr, r.exc))
  ELSE IF fault # "none" THEN Next2(st, Raise(fr, "BackendError"))
  ELSE Next2(Push(st, _get_metadata_path(fr.d, fr.m, fr.s), fr.buf),
             IF fr.op = "set_model_state" THEN Return(fr) ELSE Goto(fr, "del_remove"))

\* Mutant: unset_model_state raises when the model is not set to the state.
UnsetModelStateStep_RaisesIfNotSet(st, fr, fault) ==
  IF fr.pc = "ums_exists"
  THEN IF state_exists(st, fr.s, fault) THEN Next2(st, Goto(fr, "ums_remove"))
       ELSE Next2(st, Raise(fr, "ValueError"))
  ELSE IF fault # "none" THEN Next2(st, Raise(fr, "BackendError"))
  ELSE IF ~Exists(st, _get_metadata_path(fr.d, fr.m, fr.s)) THEN Next2(st, Raise(fr, "ValueError"))
  ELSE Next2(Remove(st, _get_metadata_path(fr.d, fr.m, fr.s)),
             IF fr.op = "unset_model_state" THEN Return(fr) ELSE DeleteLoop(fr, fr.todo))

\* Mutant: unset_model_state removes nothing.
UnsetModelStateStep_KeepsCopy(st, fr, fault) ==
  IF fr.pc = "ums_exists"
  THEN IF state_exists(st, fr.s, fault) THEN Next2(st, Goto(fr, "ums_remove"))
       ELSE Next2(st, Raise(fr, "ValueError"))
  ELSE IF fault # "none" THEN Next2(st, Raise(fr, "BackendError"))
  ELSE Next2(st, IF fr.op = "unset_model_state" THEN Return(fr) ELSE DeleteLoop(fr, fr.todo))

\* unset_model_state for a state that is not reserved: the state must
\* exist; then the object under the state is removed, present or not.
UnsetModelStateStep(st, fr, fault) ==
  IF fr.pc = "ums_exists"
  THEN IF state_exists(st, fr.s, fault) THEN Next2(st, Goto(fr, "ums_remove"))
       ELSE Next2(st, Raise(fr, "ValueError"))
  ELSE IF fault # "none" THEN Next2(st, Raise(fr, "BackendError"))
  ELSE Next2(Remove(st, _get_metadata_path(fr.d, fr.m, fr.s)),
             IF fr.op = "unset_model_state" THEN Return(fr) ELSE DeleteLoop(fr, fr.todo))

\* Mutant: delete_model's last removal is of the path under the reserved
\* state.
DeleteModelStep_RemovesTombstone(st, fr, fault) ==
  IF fault # "none" THEN Next2(st, Raise(fr, "BackendError"))
  ELSE IF fr.pc = "del_archive"
       THEN Next2(Remove(st, get_archive_path(fr.d, fr.m)), Goto(fr, "del_list"))
       ELSE Next2(Remove(st, _get_metadata_path(fr.d, fr.m, DELETED)), Return(fr))

\* delete_model's own backend calls: the archive is removed first, the
\* model's metadata last.
DeleteModelStep(st, fr, fault) ==
  IF fault # "none" THEN Next2(st, Raise(fr, "BackendError"))
  ELSE IF fr.pc = "del_archive"
       THEN Next2(Remove(st, get_archive_path(fr.d, fr.m)), Goto(fr, "del_list"))
       ELSE Next2(Remove(st, _get_metadata_path(fr.d, fr.m, NoState)), Return(fr))

\* ------------------------------------------------------------------- steps
\* The prefix a listing step of the frame reads.
ListPrefix(fr) ==
  IF fr.pc = "lm_read" THEN get_models_path(fr.d, fr.s)
  ELSE IF fr.pc \in {"lms_read", "del_list"} THEN get_model_states_path
  ELSE get_domains_path

IsListing(fr) == fr.pc \in {"lm_read", "lms_read", "del_list", "ld_read"}

\* One backend call of a running operation.
StepOf(st, fr, fault, order) ==
  IF fr.pc \in {"smd_push1", "smd_push2"} THEN SetMetaDataStep(st, fr, fault)
  ELSE IF fr.pc \in {"gmd_pull1", "gmd_pull2"} THEN GetMetaDataStep(st, fr, fault)
  ELSE IF fr.pc = "up_archive" THEN UploadArchiveStep(st, fr, fault)
  ELSE IF fr.pc \in {"dl_domain", "dl_pull"} THEN DownloadStep(st, fr, fault)
  ELSE IF fr.pc = "gd_pull" THEN GetDomainStep(st, fr, fault)
  ELSE IF fr.pc \in {"lm_exists", "lm_read"} THEN ListModelsStep(st, fr, fault, order)
  ELSE IF fr.pc = "ld_read" THEN list_domains(st, fr, fault, order)
  ELSE IF fr.pc \in {"lms_read", "del_list"} THEN ListModelStatesStep(st, fr, fault, order)
  ELSE IF fr.pc \in {"cms_exists", "cms_push"} THEN CreateModelStateStep(st, fr, fault)
  ELSE IF fr.pc \in {"sms_exists", "sms_pull", "sms_push"} THEN SetModelStateStep(st, fr, fault)
  ELSE IF fr.pc \in {"ums_exists", "ums_remove"} THEN UnsetModelStateStep(st, fr, fault)
  ELSE DeleteModelStep(st, fr, fault)

\* The ways a backend call can fail for a reason other than a missing key: a
\* pull raises FilePullFailedException or an exception of the provider's
\* client; the other calls raise the latter.
IsPull(fr) ==
  fr.pc \in {"gmd_pull1", "gmd_pull2", "gd_pull", "lm_exists", "cms_exists",
             "sms_exists", "sms_pull", "ums_exists", "dl_pull"}

FaultsOf(fr, faulty) ==
  IF ~faulty THEN {"none"}
  ELSE IF IsPull(fr) THEN {"none", "FilePullFailed", "BackendError"}
  ELSE {"none", "BackendError"}

\* Every outcome of the next backend call of a frame.
Steps(st, fr, faulty) ==
  {StepOf(st, fr, f, o) :
     f \in FaultsOf(fr, faulty),
     o \in IF IsListing(fr) THEN Orders(KeysUnder(st, ListPrefix(fr))) ELSE {<<>>}}

\* ------------------------------------------------------------------- calls
\* A call of the catalog: the operation and its arguments.  t is the time
\* of the call (the "created" of what it writes); prompt is "skip" for
\* skip_prompt=True and otherwise the user's answer to click.confirm.
Call(op, d, m, s, t, prompt) ==
  [op |-> op, d |-> d, m |-> m, s |-> s, t |-> t, prompt |-> prompt]

\* Mutant: create_model_state rejects the reserved names and no other.
CannotCreateState_ReservedOnly(s) == is_reserved_state(s)

\* The names create_model_state raises ValueError for: those neither
\* reserved nor valid.
CannotCreateState(s) == ~is_reserved_state(s) /\ ~is_valid_state_name(s)

\* Mutant: unset_model_state treats the reserved states like the others.
CannotUnsetState_Never(s) == FALSE

\* The states unset_model_state returns at once for: the reserved ones.
CannotUnsetState(s) == is_reserved_state(s)

\* The frame of a call after the checks it makes before its first backend
\* call.
Start(c, lf) ==
  LET was == IF c.m = "-" THEN "-" ELSE lf[c.d, c.m]
      fr(pc) == Frame(c.op, pc, c.d, c.m, c.s, c.t, was) IN
  IF c.op = "set_meta_data" THEN fr("smd_push1")
  ELSE IF c.op \in {"get_meta_data", "check_model_exists", "upload"}
  THEN IF c.d = "" \/ c.m = "" THEN Raise(fr("entry"), "ValueError") ELSE fr("gmd_pull1")
  ELSE IF c.op = "download"
  THEN IF c.m = "-" THEN fr("dl_domain") ELSE fr("gmd_pull1")
  ELSE IF c.op = "get_domain" THEN fr("gd_pull")
  ELSE IF c.op = "list_models"
  THEN IF c.s \notin {NoState, ""} THEN fr("lm_exists") ELSE fr("gd_pull")
  ELSE IF c.op = "list_domains" THEN fr("ld_read")
  ELSE IF c.op = "list_model_states" THEN fr("lms_read")
  ELSE IF c.op = "create_model_state"
  THEN IF CannotCreateState(c.s)
       THEN Raise(fr("entry"), "ValueError") ELSE fr("cms_exists")
  ELSE IF c.op = "set_model_state"
  THEN IF is_reserved_state(c.s) THEN fr("cms_exists") ELSE fr("sms_exists")
  ELSE IF c.op = "unset_model_state"
  THEN IF CannotUnsetState(c.s) THEN Return(fr("entry")) ELSE fr("ums_exists")
  ELSE \* delete_model
       IF c.prompt = "no" THEN ReturnFlag(fr("entry"), FALSE) ELSE fr("del_archive")

\* ------------------------------------------------------------------- state
VARIABLES
  store,   \* the backend: the object at every key
  thr,     \* the frame of each concurrent caller (SpecConc)
  life     \* per (domain, model): what has happened to its metadata

vars == <<store, thr, life>>

Threads == {"a", "b"}

\* The lifecycle of a model's metadata: "new" until set_meta_data first
\* pushes it, "stored" from then on, "deleted" once delete_model has
\* removed it, "restored" once set_meta_data has pushed it again.
StepLife(lf, before, after) ==
  IF before.pc = "smd_push1" /\ after.pc = "smd_push2"
  THEN [lf EXCEPT ![before.d, before.m] = IF @ \in {"deleted", "restored"} THEN "restored" ELSE "stored"]
  ELSE IF before.pc = "del_remove" /\ after.res = "ok"
  THEN [lf EXCEPT ![before.d, before.m] = "deleted"]
  ELSE lf

\* Every outcome of running a frame to its end: the backend, the finished
\* frame and the lifecycles.
RECURSIVE Run(_, _, _, _)
Run(st, fr, lf, faulty) ==
  IF fr.pc = "done" THEN {[st |-> st, fr |-> fr, lf |-> lf]}
  ELSE UNION {Run(n.st, n.fr, StepLife(lf, fr, n.fr), faulty) : n \in Steps(st, fr, faulty)}

\* Every outcome of a call made in a given state and run to its end.
RunCall(st, lf, c, faulty) == Run(st, Start(c, lf), lf, faulty)

\* Every outcome of a call made in the current state.
Outcomes(c, faulty) == RunCall(store, life, c, faulty)

\* The states a call can leave behind.
Effects(c, faulty) == {[st |-> n.st, lf |-> n.lf] : n \in Outcomes(c, faulty)}

Init ==
  /\ store = EmptyStore
  /\ thr = [t \in Threads |-> Idle]
  /\ life = [d \in Domains, m \in Models |-> "new"]

\* ------------------------------------------------------------------- calls
SetMetaDataCalls ==
  {Call("set_meta_data", d, m, "-", t, "-") : d \in Domains, m \in Models, t \in Times}

GetMetaDataCalls == {Call("get_meta_data", d, m, "-", 0, "-") : d \in Domains, m \in Models}

CheckModelExistsCalls ==
  {Call("check_model_exists", d, m, "-", 0, "-") : d \in Domains, m \in Models}

UploadCalls == {Call("upload", d, m, "-", t, "-") : d \in Domains, m \in Models, t \in Times}

DeleteModelCalls ==
  {Call("delete_model", d, m, "-", StateTime, p) :
     d \in Domains, m \in Models, p \in {"skip", "yes", "no"}}

\* "-" for the model id is download's default, None.
DownloadCalls ==
  {Call("download", d, m, "-", 0, "-") : d \in Domains, m \in Models \cup {"-"}}

GetDomainCalls == {Call("get_domain", d, "-", "-", 0, "-") : d \in Domains}

ListDomainsCalls == {Call("list_domains", "-", "-", "-", 0, "-")}

ListModelsCalls ==
  {Call("list_models", d, "-", s, 0, "-") : d \in Domains, s \in UserStates \cup {DELETED, NoState}}

ListModelStatesCalls == {Call("list_model_states", "-", "-", "-", 0, "-")}

CreateModelStateCalls ==
  {Call("create_model_state", "-", "-", s, StateTime, "-") : s \in StateNames}

SetModelStateCalls ==
  {Call("set_model_state", d, m, s, StateTime, "-") :
     d \in Domains, m \in Models, s \in StateNames}

UnsetModelStateCalls ==
  {Call("unset_model_state", d, m, s, 0, "-") : d \in Domains, m \in Models, s \in StateNames}

\* ----------------------------------------------------------------- actions
\* One caller, one call at a time, each run to its end.
SetMetaData ==
  \E c \in SetMetaDataCalls : \E n \in Effects(c, FALSE) :
    /\ store' = n.st
    /\ life' = n.lf
    /\ UNCHANGED thr

GetMetaData ==
  \E c \in GetMetaDataCalls : \E n \in Effects(c, FALSE) :
    /\ store' = n.st
    /\ life' = n.lf
    /\ UNCHANGED thr

CheckModelExists ==
  \E c \in CheckModelExistsCalls : \E n \in Effects(c, FALSE) :
    /\ store' = n.st
    /\ life' = n.lf
    /\ UNCHANGED thr

Upload ==
  \E c \in UploadCalls : \E n \in Effects(c, FALSE) :
    /\ store' = n.st
    /\ life' = n.lf
    /\ UNCHANGED thr

DeleteModel ==
  \E c \in DeleteModelCalls : \E n \in Effects(c, FALSE) :
    /\ store' = n.st
    /\ life' = n.lf
    /\ UNCHANGED thr

Download ==
  \E c \in DownloadCalls : \E n \in Effects(c, FALSE) :
    /\ store' = n.st
    /\ life' = n.lf
    /\ UNCHANGED thr

GetDomain ==
  \E c \in GetDomainCalls : \E n \in Effects(c, FALSE) :
    /\ store' = n.st
    /\ life' = n.lf
    /\ UNCHANGED thr

ListDomains ==
  \E c \in ListDomainsCalls : \E n \in Effects(c, FALSE) :
    /\ store' = n.st
    /\ life' = n.lf
    /\ UNCHANGED thr

ListModels ==
  \E c \in ListModelsCalls : \E n \in Effects(c, FALSE) :
    /\ store' = n.st
    /\ life' = n.lf
    /\ UNCHANGED thr

ListModelStates ==
  \E c \in ListModelStatesCalls : \E n \in Effects(c, FALSE) :
    /\ store' = n.st
    /\ life' = n.lf
    /\ UNCHANGED thr

CreateModelState ==
  \E c \in CreateModelStateCalls : \E n \in Effects(c, FALSE) :
    /\ store' = n.st
    /\ life' = n.lf
    /\ UNCHANGED thr

SetModelState ==
  \E c \in SetModelStateCalls : \E n \in Effects(c, FALSE) :
    /\ store' = n.st
    /\ life' = n.lf
    /\ UNCHANGED thr

UnsetModelState ==
  \E c \in UnsetModelStateCalls : \E n \in Effects(c, FALSE) :
    /\ store' = n.st
    /\ life' = n.lf
    /\ UNCHANGED thr

Next ==
  \/ SetMetaData
  \/ GetMetaData
  \/ CheckModelExists
  \/ Upload
  \/ DeleteModel
  \/ Download
  \/ GetDomain
  \/ ListDomains
  \/ ListModels
  \/ ListModelStates
  \/ CreateModelState
  \/ SetModelState
  \/ UnsetModelState

Spec == Init /\ [][Next]_vars

\* ------------------------------------------------------- concurrent callers
\* Two callers whose calls interleave backend call by backend call.
ConcModels == {"m1"}

ConcCalls ==
  {c \in SetMetaDataCalls \cup GetMetaDataCalls : c.m \in ConcModels}
    \cup {c \in DeleteModelCalls : c.m \in ConcModels /\ c.prompt = "skip"}
    \cup {c \in SetModelStateCalls : c.m \in ConcModels /\ c.s \in UserStates}
    \cup {c \in CreateModelStateCalls : c.s \in UserStates}

ConcStart(t) ==
  /\ thr[t].pc = "done"
  /\ \E c \in ConcCalls : thr' = [thr EXCEPT ![t] = Start(c, life)]
  /\ UNCHANGED <<store, life>>

\* The next backend call of the call a caller is in, one action per operation.
ConcSetMetaData(t) ==
  /\ thr[t].pc # "done" /\ thr[t].op = "set_meta_data"
  /\ \E n \in Steps(store, thr[t], FALSE) :
       /\ store' = n.st
       /\ thr' = [thr EXCEPT ![t] = n.fr]
       /\ life' = StepLife(life, thr[t], n.fr)

ConcGetMetaData(t) ==
  /\ thr[t].pc # "done" /\ thr[t].op = "get_meta_data"
  /\ \E n \in Steps(store, thr[t], FALSE) :
       /\ store' = n.st
       /\ thr' = [thr EXCEPT ![t] = n.fr]
       /\ life' = StepLife(life, thr[t], n.fr)

ConcDeleteModel(t) ==
  /\ thr[t].pc # "done" /\ thr[t].op = "delete_model"
  /\ \E n \in Steps(store, thr[t], FALSE) :
       /\ store' = n.st
       /\ thr' = [thr EXCEPT ![t] = n.fr]
       /\ life' = StepLife(life, thr[t], n.fr)

ConcCreateModelState(t) ==
  /\ thr[t].pc # "done" /\ thr[t].op = "create_model_state"
  /\ \E n \in Steps(store, thr[t], FALSE) :
       /\ store' = n.st
       /\ thr' = [thr EXCEPT ![t] = n.fr]
       /\ life' = StepLife(life, thr[t], n.fr)

ConcSetModelState(t) ==
  /\ thr[t].pc # "done" /\ thr[t].op = "set_model_state"
  /\ \E n \in Steps(store, thr[t], FALSE) :
       /\ store' = n.st
       /\ thr' = [thr EXCEPT ![t] = n.fr]
       /\ life' = StepLife(life, thr[t], n.fr)

NextConc ==
  \E t \in Threads :
    \/ ConcStart(t)
    \/ ConcSetMetaData(t)
    \/ ConcGetMetaData(t)
    \/ ConcDeleteModel(t)
    \/ ConcCreateModelState(t)
    \/ ConcSetModelState(t)

SpecConc == Init /\ [][NextConc]_vars

\* ---------------------------------------------------------------- listings
\* The listings on their own: a backend as uploads into several domains
\* leave it, the object of every domain being the record of some model
\* stored at some time, and the models of the calls' domain stored at any
\* times; list_domains and list_models read it.
InitListing ==
  /\ thr = [t \in Threads |-> Idle]
  /\ \E latest \in [ListedDomains -> {<<"-", 0>>} \cup (Models \X Times)] :
       \E stored \in [Domains \X Models -> {0} \cup Times] :
         /\ \A d \in Domains :
              (\E m \in Models : stored[d, m] # 0) => latest[d] # <<"-", 0>>
         /\ store = [k \in Keys |->
                       IF \E d \in ListedDomains : k = get_domain_path(d) /\ latest[d] # <<"-", 0>>
                       THEN MetaRecord(k[4], latest[k[4]][1], latest[k[4]][2])
                       ELSE IF \E d \in Domains, m \in Models :
                                 k = _get_metadata_path(d, m, NoState) /\ stored[d, m] # 0
                       THEN MetaRecord(k[2], k[4], stored[k[2], k[4]])
                       ELSE NoObj]
         /\ life = [d \in Domains, m \in Models |->
                      IF stored[d, m] # 0 THEN "stored" ELSE "new"]

NextListing ==
  \/ ListDomains
  \/ ListModels

SpecListing == InitListing /\ [][NextListing]_vars

\* ------------------------------------------------------------------ claims
Ran(lst) == {lst[i] : i \in 1..Len(lst)}

Canonical(d, m) == _get_metadata_path(d, m, NoState)

Tombstone(d, m) == _get_metadata_path(d, m, DELETED)

GetCall(d, m) == Call("get_meta_data", d, m, "-", 0, "-")

ListCall(d, s) == Call("list_models", d, "-", s, 0, "-")

DeleteCall(d, m) == Call("delete_model", d, m, "-", StateTime, "skip")

CheckCall(d, m) == Call("check_model_exists", d, m, "-", 0, "-")

\* C1, as stated: once delete_model(d, m, meta, skip_prompt=True) has
\* completed for a model stored with set_meta_data, every later
\* get_meta_data(d, m) fails with ModelDeleted.
C1_DeletedForEver ==
  \A d \in Domains, m \in Models :
    life[d, m] \in {"deleted", "restored"} =>
      \A n \in Outcomes(GetCall(d, m), FALSE) : n.fr.res = "ModelDeleted"

\* C1, amended: once delete_model has completed, every later
\* get_meta_data(d, m) fails with ModelDeleted for as long as set_meta_data
\* has not stored metadata for (d, m) again, and it never fails with
\* ModelNotFound.
C1_DeletedUntilStoredAgain ==
  \A d \in Domains, m \in Models :
    \A n \in Outcomes(GetCall(d, m), FALSE) :
      /\ life[d, m] = "deleted" => n.fr.res = "ModelDeleted"
      /\ life[d, m] \in {"deleted", "restored"} => n.fr.res # "ModelNotFound"

C1_Witness ==
  \E d \in Domains, m \in Models :
    /\ life[d, m] = "deleted"
    /\ \E n \in Outcomes(GetCall(d, m), FALSE) : n.fr.res = "ModelDeleted"

\* C2: after delete_model(d, m, meta) has completed, list_models(d) does not
\* contain m, and neither does list_models(d, s) for any user state s that m
\* was set to before the deletion.
C2_DeletedNotListed ==
  \A d \in Domains, m \in Models :
    \A del \in Outcomes(DeleteCall(d, m), FALSE) :
      del.fr.res = "ok" =>
        /\ \A n \in RunCall(del.st, del.lf, ListCall(d, NoState), FALSE) :
             n.fr.res = "ok" /\ m \notin Ran(n.fr.lst)
        /\ \A s \in UserStates :
             Exists(store, _get_metadata_path(d, m, s)) =>
               \A n \in RunCall(del.st, del.lf, ListCall(d, s), FALSE) :
                 n.fr.res = "ok" /\ m \notin Ran(n.fr.lst)

\* The model is set to a user state, and its deletion completes.
C2_Witness ==
  \E d \in Domains, m \in Models, s \in UserStates :
    /\ Exists(store, _get_metadata_path(d, m, s))
    /\ \E del \in Outcomes(DeleteCall(d, m), FALSE) :
         /\ del.fr.res = "ok"
         /\ \E n \in RunCall(del.st, del.lf, ListCall(d, s), FALSE) : n.fr.res = "ok"

\* C3: delete_model writes the tombstone before it removes the model's
\* metadata, so at every point of a deletion one of the two objects exists,
\* and a get_meta_data(d, m) of a model that was uploaded when it was called,
\* interleaved with a delete_model(d, m), returns the record or fails with
\* ModelDeleted, never with ModelNotFound.
C3_TombstoneBeforeRemoval ==
  /\ \A d \in Domains, m \in Models :
       life[d, m] # "new" => Exists(store, Canonical(d, m)) \/ Exists(store, Tombstone(d, m))
  /\ \A t \in Threads :
       (thr[t].op = "get_meta_data" /\ thr[t].pc = "done" /\ thr[t].was # "new")
         => thr[t].res \in {"ok", "ModelDeleted"}

\* A get_meta_data called while the model was stored finds it deleted: the
\* deletion ran between the call and its second pull.
C3_Witness ==
  \E t \in Threads, u \in Threads :
    /\ thr[t].op = "get_meta_data" /\ thr[t].pc = "done"
    /\ thr[t].was = "stored" /\ thr[t].res = "ModelDeleted"
    /\ thr[u].op = "delete_model" /\ thr[u].pc = "done" /\ thr[u].res = "ok"

\* C4: get_meta_data(d, m) returns the object at the model's path when it
\* exists; fails with ModelDeleted when it is absent and the tombstone
\* exists; fails with ModelNotFound when neither exists, as for every (d, m)
\* never uploaded.
C4_ThreeOutcomes ==
  \A d \in Domains, m \in Models :
    \A n \in Outcomes(GetCall(d, m), FALSE) :
      /\ n.st = store
      /\ IF Exists(store, Canonical(d, m))
         THEN n.fr.res = "ok" /\ n.fr.obj = store[Canonical(d, m)]
         ELSE IF Exists(store, Tombstone(d, m)) THEN n.fr.res = "ModelDeleted"
         ELSE n.fr.res = "ModelNotFound"
      /\ life[d, m] = "new" => n.fr.res = "ModelNotFound"

\* One model is stored, the other deleted.
C4_Witness ==
  \E d \in Domains, m \in Models, k \in Models :
    /\ Exists(store, Canonical(d, m))
    /\ ~Exists(store, Canonical(d, k)) /\ Exists(store, Tombstone(d, k))
    /\ \E n \in Outcomes(GetCall(d, k), FALSE) : n.fr.res = "ModelDeleted"

\* C5: when a pull of get_meta_data fails for a reason other than a missing
\* key, get_meta_data reports neither ModelNotFound nor ModelDeleted for a
\* model whose metadata object is present.
C5_PullFailureNotReinterpreted ==
  \A d \in Domains, m \in Models :
    Exists(store, Canonical(d, m)) =>
      \A n \in Outcomes(GetCall(d, m), TRUE) :
        n.fr.res \notin {"ModelNotFound", "ModelDeleted"}

\* C6: upload(d, model_id=m) raises ModelExists whenever m has a metadata
\* record in d, and the rejected call writes nothing.
C6_UploadRejected ==
  \A c \in UploadCalls :
    Exists(store, Canonical(c.d, c.m)) =>
      \A n \in Outcomes(c, FALSE) : n.fr.res = "ModelExists" /\ n.st = store

C6_Witness ==
  \E c \in UploadCalls :
    /\ Exists(store, Canonical(c.d, c.m))
    /\ \E n \in Outcomes(c, FALSE) : n.fr.res = "ModelExists"

\* C7: check_model_exists(d, m) returns False, without raising, for a
\* deleted model (metadata object absent, tombstone present).
C7_DeletedIsNotExisting ==
  \A d \in Domains, m \in Models :
    (~Exists(store, Canonical(d, m)) /\ Exists(store, Tombstone(d, m))) =>
      \A n \in Outcomes(CheckCall(d, m), FALSE) : n.fr.res = "ok" /\ n.fr.flag = FALSE

\* C8: check_model_exists(d, m) never returns False for a failure of the
\* lookup that is neither "not found" nor "deleted": for a model whose
\* metadata object is present it returns True or raises.
C8_FailurePropagated ==
  \A d \in Domains, m \in Models :
    Exists(store, Canonical(d, m)) =>
      \A n \in Outcomes(CheckCall(d, m), TRUE) : ~(n.fr.res = "ok" /\ n.fr.flag = FALSE)

\* C9: from a successful set_meta_data(d, m, record) until m is deleted,
\* get_meta_data(d, m) returns a record whose model_id is m and
\* list_models(d) contains m.
C9_StoredIsVisible ==
  \A d \in Domains, m \in Models :
    life[d, m] \in {"stored", "restored"} =>
      /\ \A n \in Outcomes(GetCall(d, m), FALSE) :
           n.fr.res = "ok" /\ n.fr.obj.kind = "meta" /\ n.fr.obj.model_id = m
      /\ \A n \in Outcomes(ListCall(d, NoState), FALSE) :
           n.fr.res = "ok" /\ m \in Ran(n.fr.lst)

\* Two models are stored, one of them again after a deletion.
C9_Witness ==
  \E d \in Domains, m \in Models, k \in Models :
    /\ life[d, m] = "stored" /\ life[d, k] = "restored"
    /\ \E n \in Outcomes(ListCall(d, NoState), FALSE) : {m, k} \subseteq Ran(n.fr.lst)

\* The upload, or the set_meta_data, of a call fails: a backend call raised.
Failed(n) == n.fr.res \in {"BackendError", "FilePullFailed"}

\* C10, as stated: when a backend call fails during an upload, at most the
\* archive has been pushed: the model's metadata object has not been written
\* unless the domain's object was written with the same record.
C10_NoPartialMetadata ==
  \A c \in UploadCalls \cup SetMetaDataCalls :
    \A n \in Outcomes(c, TRUE) :
      Failed(n) =>
        \/ n.st[Canonical(c.d, c.m)] = store[Canonical(c.d, c.m)]
        \/ n.st[get_domain_path(c.d)] = n.st[Canonical(c.d, c.m)]

\* C10, amended: when a backend call fails during an upload, nothing but
\* the archive has been written if the failure came before set_meta_data's
\* second push; when the second push fails, the model's metadata object has
\* been written with the new record and the domain's object is left as it
\* was.
C10_PartialOnlyAtSecondPush ==
  \A c \in UploadCalls \cup SetMetaDataCalls :
    \A n \in Outcomes(c, TRUE) :
      Failed(n) =>
        LET pushed == IF c.op = "upload" /\ n.fr.at \in {"smd_push1", "smd_push2"}
                      THEN Push(store, get_archive_path(c.d, c.m), ArchiveObj(c.d, c.m))
                      ELSE store
        IN IF n.fr.at = "smd_push2"
           THEN n.st = Push(pushed, Canonical(c.d, c.m), MetaRecord(c.d, c.m, c.t))
           ELSE n.st \in {store, pushed}

\* The second push of set_meta_data fails and leaves the model's metadata
\* written beside an older object of the domain.
C10_Witness ==
  \E c \in UploadCalls :
    \E n \in Outcomes(c, TRUE) :
      /\ Failed(n) /\ n.fr.at = "smd_push2"
      /\ Exists(store, get_domain_path(c.d))
      /\ Exists(n.st, Canonical(c.d, c.m))
      /\ n.st[get_domain_path(c.d)] # n.st[Canonical(c.d, c.m)]

GetDomainCall(d) == Call("get_domain", d, "-", "-", 0, "-")

DownloadLatestCall(d) == Call("download", d, "-", "-", 0, "-")

\* The calls that are neither an upload nor a set_meta_data.
OtherCalls ==
  GetMetaDataCalls \cup CheckModelExistsCalls \cup DeleteModelCalls \cup DownloadCalls
    \cup GetDomainCalls \cup ListDomainsCalls \cup ListModelsCalls \cup ListModelStatesCalls
    \cup CreateModelStateCalls \cup SetModelStateCalls \cup UnsetModelStateCalls

\* C11: after a successful upload (or set_meta_data) of m into d the object
\* at the domain's path is m's record: get_domain(d) returns it and
\* download(path, d) without a model id resolves to m; no other call writes
\* the domain's path, so this stays the record of the most recent upload.
C11_DomainLatest ==
  /\ \A c \in UploadCalls \cup SetMetaDataCalls :
       \A n \in Outcomes(c, FALSE) :
         n.fr.res = "ok" =>
           /\ n.st[get_domain_path(c.d)] = MetaRecord(c.d, c.m, c.t)
           /\ \A g \in RunCall(n.st, n.lf, GetDomainCall(c.d), FALSE) :
                g.fr.res = "ok" /\ g.fr.obj = MetaRecord(c.d, c.m, c.t)
           /\ \A g \in RunCall(n.st, n.lf, DownloadLatestCall(c.d), FALSE) :
                g.fr.m = c.m /\ (c.op = "upload" => g.fr.res = "ok")
  /\ \A c \in OtherCalls :
       \A n \in Outcomes(c, FALSE) :
         \A d \in Domains : n.st[get_domain_path(d)] = store[get_domain_path(d)]

\* A second model is uploaded into a domain whose object holds the record
\* of the first.
C11_Witness ==
  \E c \in UploadCalls :
    /\ Exists(store, get_domain_path(c.d))
    /\ store[get_domain_path(c.d)].model_id # c.m
    /\ \E n \in Outcomes(c, FALSE) :
         /\ n.fr.res = "ok"
         /\ \E g \in RunCall(n.st, n.lf, DownloadLatestCall(c.d), FALSE) :
              g.fr.res = "ok" /\ g.fr.m = c.m

\* C12: for a domain d that no model was ever uploaded to, get_domain(d)
\* fails with DomainNotFound, and so does list_models(d), without a state
\* and with a state that exists, instead of returning an empty list.
C12_UnknownDomain ==
  \A d \in Domains :
    (\A m \in Models : life[d, m] = "new") =>
      /\ \A n \in Outcomes(GetDomainCall(d), FALSE) :
           n.fr.res = "DomainNotFound" /\ n.st = store
      /\ \A n \in Outcomes(ListCall(d, NoState), FALSE) :
           n.fr.res = "DomainNotFound" /\ n.st = store
      /\ \A s \in UserStates \cup {DELETED} :
           Exists(store, get_model_state_path(s)) =>
             \A n \in Outcomes(ListCall(d, s), FALSE) :
               n.fr.res = "DomainNotFound" /\ n.st = store

\* A user state exists and nothing was uploaded to the domain.
C12_Witness ==
  \E d \in Domains, s \in UserStates :
    /\ \A m \in Models : life[d, m] = "new"
    /\ Exists(store, get_model_state_path(s))
    /\ \E n \in Outcomes(ListCall(d, s), FALSE) : n.fr.res = "DomainNotFound"

CreateCall(s, t) == Call("create_model_state", "-", "-", s, t, "-")

ListStatesCall == Call("list_model_states", "-", "-", "-", 0, "-")

Count(lst, x) == Cardinality({i \in 1..Len(lst) : lst[i] = x})

\* C13: create_model_state(s) called twice in succession, at any two times,
\* raises neither time; the second call returns from its existence check
\* and writes nothing, so the backend is as the first call left it, with
\* one registry entry for s: the one the first call wrote or found.
C13_CreateIdempotent ==
  \A s \in UserStates \cup ReservedModelStates, t1 \in Times, t2 \in Times :
    \A n1 \in Outcomes(CreateCall(s, t1), FALSE) :
      /\ n1.fr.res = "ok"
      /\ n1.st[get_model_state_path(s)] =
           IF Exists(store, get_model_state_path(s)) THEN store[get_model_state_path(s)]
           ELSE StateData(s, t1)
      /\ \A n2 \in RunCall(n1.st, n1.lf, CreateCall(s, t2), FALSE) :
           /\ n2.fr.res = "ok" /\ n2.fr.at = "cms_exists"
           /\ n2.st = n1.st
           /\ is_valid_state_name(s) =>
                \A l \in RunCall(n2.st, n2.lf, ListStatesCall, FALSE) :
                  l.fr.res = "ok" /\ Count(l.fr.lst, s) = 1

\* The first call creates the state, the second is made at a later time.
C13_Witness ==
  \E s \in UserStates, t1 \in Times, t2 \in Times :
    /\ t1 < t2
    /\ ~Exists(store, get_model_state_path(s))
    /\ Exists(store, get_model_state_path(DELETED))
    /\ \E n1 \in Outcomes(CreateCall(s, t1), FALSE) :
         /\ n1.st # store
         /\ \E n2 \in RunCall(n1.st, n1.lf, CreateCall(s, t2), FALSE) : n2.fr.res = "ok"

\* C14: create_model_state with a name that is neither valid nor reserved
\* raises ValueError before any backend call, whatever the backend would
\* answer, and no registry entry is written; a reserved name is accepted
\* and has a registry entry afterwards.
C14_InvalidNameRejected ==
  \A s \in StateNames, t \in Times :
    /\ (~is_valid_state_name(s) /\ ~is_reserved_state(s)) =>
         /\ ~Exists(store, get_model_state_path(s))
         /\ \A n \in Outcomes(CreateCall(s, t), TRUE) :
              n.fr.res = "ValueError" /\ n.fr.at = "entry" /\ n.st = store
    /\ is_reserved_state(s) =>
         \A n \in Outcomes(CreateCall(s, t), FALSE) :
           /\ n.fr.res = "ok"
           /\ Exists(n.st, get_model_state_path(s))
           /\ n.st[get_model_state_path(s)].state_name = s

\* With a user state registered, an invalid name is rejected and the
\* reserved name gets its registry entry.
C14_Witness ==
  \E s \in StateNames, u \in UserStates, t \in Times :
    /\ ~is_valid_state_name(s) /\ ~is_reserved_state(s)
    /\ Exists(store, get_model_state_path(u))
    /\ \E n \in Outcomes(CreateCall(s, t), TRUE) : n.fr.res = "ValueError"
    /\ ~Exists(store, get_model_state_path(DELETED))
    /\ \E n \in Outcomes(CreateCall(DELETED, t), FALSE) :
         n.st = Push(store, get_model_state_path(DELETED), StateData(DELETED, t))

SetStateCall(d, m, s) == Call("set_model_state", d, m, s, StateTime, "-")

UnsetStateCall(d, m, s) == Call("unset_model_state", d, m, s, 0, "-")

Uploaded(d, m) == life[d, m] \in {"stored", "restored"}

\* C15: set_model_state(d, m, s) for an uploaded model m and a state s that
\* is not reserved and was never created raises the ValueError "State does
\* not exist" and writes nothing; after create_model_state(s) the same call
\* succeeds and list_models(d, s) contains m.
C15_StateMustExist ==
  \A d \in Domains, m \in Models, s \in StateNames \ ReservedModelStates :
    (Uploaded(d, m) /\ ~Exists(store, get_model_state_path(s))) =>
      /\ \A n \in Outcomes(SetStateCall(d, m, s), FALSE) :
           n.fr.res = "ValueError" /\ n.fr.at = "sms_exists" /\ n.st = store
      /\ is_valid_state_name(s) =>
           \A t \in Times : \A c \in Outcomes(CreateCall(s, t), FALSE) :
             /\ c.fr.res = "ok"
             /\ \A n \in RunCall(c.st, c.lf, SetStateCall(d, m, s), FALSE) :
                  /\ n.fr.res = "ok"
                  /\ \A l \in RunCall(n.st, n.lf, ListCall(d, s), FALSE) :
                       l.fr.res = "ok" /\ m \in Ran(l.fr.lst)

\* Two models are uploaded and no user state was created: the call fails,
\* and succeeds once the state is created.
C15_Witness ==
  \E d \in Domains, m \in Models, k \in Models, s \in UserStates :
    /\ m # k /\ Uploaded(d, m) /\ Uploaded(d, k)
    /\ ~Exists(store, get_model_state_path(s))
    /\ \E n \in Outcomes(SetStateCall(d, m, s), FALSE) : n.fr.res = "ValueError"
    /\ \E c \in Outcomes(CreateCall(s, StateTime), FALSE) :
         \E n \in RunCall(c.st, c.lf, SetStateCall(d, m, s), FALSE) :
           \E l \in RunCall(n.st, n.lf, ListCall(d, s), FALSE) : l.fr.lst = <<m>>

SetStateCallAt(d, m, s, t) == Call("set_model_state", d, m, s, t, "-")

\* C16: for an uploaded model m and a state s that exists (or is reserved),
\* set_model_state(d, m, s) called twice in succession, the second time at
\* any time, leaves the backend as the first call left it: the copy under
\* s equal to the model's metadata.
C16_SetStateIdempotent ==
  \A d \in Domains, m \in Models, s \in UserStates \cup ReservedModelStates :
    (Uploaded(d, m) /\ (Exists(store, get_model_state_path(s)) \/ is_reserved_state(s))) =>
      \A n1 \in Outcomes(SetStateCall(d, m, s), FALSE) :
        /\ n1.fr.res = "ok"
        /\ n1.st[_get_metadata_path(d, m, s)] = store[Canonical(d, m)]
        /\ \A t2 \in Times :
             \A n2 \in RunCall(n1.st, n1.lf, SetStateCallAt(d, m, s, t2), FALSE) :
               n2.fr.res = "ok" /\ n2.st = n1.st

\* The copy under the state is older than the model's metadata: the first
\* call rewrites it, the second, made later, changes nothing.
C16_Witness ==
  \E d \in Domains, m \in Models, s \in UserStates, t2 \in Times :
    /\ StateTime < t2 /\ Uploaded(d, m)
    /\ Exists(store, _get_metadata_path(d, m, s))
    /\ store[_get_metadata_path(d, m, s)] # store[Canonical(d, m)]
    /\ \E n1 \in Outcomes(SetStateCall(d, m, s), FALSE) :
         /\ n1.st # store
         /\ \E n2 \in RunCall(n1.st, n1.lf, SetStateCallAt(d, m, s, t2), FALSE) : n2.st = n1.st

\* C17: unset_model_state(d, m, s) with a reserved state s returns without
\* an error and without a backend call, whatever the backend would answer,
\* and leaves every object as it was; for a deleted model get_meta_data(d, m)
\* still fails with ModelDeleted afterwards.
C17_ReservedUnsetIsNoOp ==
  \A d \in Domains, m \in Models, s \in ReservedModelStates :
    \A n \in Outcomes(UnsetStateCall(d, m, s), TRUE) :
      /\ n.fr.res = "ok" /\ n.fr.at = "entry"
      /\ n.st = store
      /\ life[d, m] = "deleted" =>
           \A g \in RunCall(n.st, n.lf, GetCall(d, m), FALSE) : g.fr.res = "ModelDeleted"

\* The reserved state is unset for a deleted model whose tombstone and the
\* state's registry entry exist.
C17_Witness ==
  \E d \in Domains, m \in Models :
    /\ life[d, m] = "deleted"
    /\ Exists(store, Tombstone(d, m)) /\ Exists(store, get_model_state_path(DELETED))
    /\ \E n \in Outcomes(UnsetStateCall(d, m, DELETED), TRUE) :
         /\ n.fr.res = "ok"
         /\ \E g \in RunCall(n.st, n.lf, GetCall(d, m), FALSE) : g.fr.res = "ModelDeleted"

\* C18: unset_model_state(d, m, s) for a state s that is not reserved: when
\* s was never created it raises the ValueError "State does not exist" and
\* changes nothing; when s exists and m is not set to s it returns and
\* changes nothing; when m is set to s it removes the copy of m under s and
\* nothing else, and list_models(d, s) then does not contain m.
C18_UnsetOutcomes ==
  \A d \in Domains, m \in Models, s \in StateNames \ ReservedModelStates :
    \A n \in Outcomes(UnsetStateCall(d, m, s), FALSE) :
      IF ~Exists(store, get_model_state_path(s))
      THEN n.fr.res = "ValueError" /\ n.fr.at = "ums_exists" /\ n.st = store
      ELSE IF ~Exists(store, _get_metadata_path(d, m, s))
      THEN n.fr.res = "ok" /\ n.st = store
      ELSE /\ n.fr.res = "ok"
           /\ n.st = [store EXCEPT ![_get_metadata_path(d, m, s)] = NoObj]
           /\ \A l \in RunCall(n.st, n.lf, ListCall(d, s), FALSE) :
                l.fr.res = "ok" /\ m \notin Ran(l.fr.lst)

\* Two models are set to a user state and a third name was never created:
\* one copy is removed and the other model stays listed; a second removal
\* changes nothing; the unknown state is refused.
C18_Witness ==
  \E d \in Domains, m \in Models, k \in Models, s \in UserStates, u \in StateNames :
    /\ m # k
    /\ Exists(store, _get_metadata_path(d, m, s)) /\ Exists(store, _get_metadata_path(d, k, s))
    /\ ~is_reserved_state(u) /\ ~Exists(store, get_model_state_path(u))
    /\ \E n \in Outcomes(UnsetStateCall(d, m, u), FALSE) : n.fr.res = "ValueError"
    /\ \E n \in Outcomes(UnsetStateCall(d, m, s), FALSE) :
         /\ \E l \in RunCall(n.st, n.lf, ListCall(d, s), FALSE) : l.fr.lst = <<k>>
         /\ \E r \in RunCall(n.st, n.lf, UnsetStateCall(d, m, s), FALSE) :
              r.fr.res = "ok" /\ r.st = n.st

\* C19: an object at the path of (d, m) under the reserved state is never
\* removed: no call of the catalog takes a backend that has it to one that
\* has not.
C19_TombstonePermanent ==
  [][\A d \in Domains, m \in Models :
       Exists(store, Tombstone(d, m)) => Exists(store', Tombstone(d, m))]_vars

\* A model stored again after its deletion is deleted a second time: its
\* tombstone is still there, now beside no metadata.
C19_Witness ==
  \E d \in Domains, m \in Models :
    /\ life[d, m] = "restored" /\ Exists(store, Tombstone(d, m))
    /\ \E n \in Outcomes(DeleteCall(d, m), FALSE) :
         n.fr.res = "ok" /\ Exists(n.st, Tombstone(d, m)) /\ ~Exists(n.st, Canonical(d, m))

\* The object is a metadata record of model m of domain d.
RecordOf(obj, d, m) == obj.kind = "meta" /\ obj.domain = d /\ obj.model_id = m

\* C20: after a completed delete_model(d, m, meta) the archive, the model's
\* metadata object and its copies under user states are gone, and the
\* object under the reserved state is the only one in the backend that
\* holds m's record: the object at the domain's path does not.
C20_OnlyTombstoneSurvives ==
  \A d \in Domains, m \in Models :
    \A n \in Outcomes(DeleteCall(d, m), FALSE) :
      n.fr.res = "ok" =>
        /\ ~Exists(n.st, get_archive_path(d, m))
        /\ ~Exists(n.st, Canonical(d, m))
        /\ \A s \in UserStates : ~Exists(n.st, _get_metadata_path(d, m, s))
        /\ RecordOf(n.st[Tombstone(d, m)], d, m)
        /\ \A k \in Keys \ {Tombstone(d, m)} : ~RecordOf(n.st[k], d, m)


\* Every outcome of running a frame to its end when the backend may fail at
\* the backend calls made at the places pcs and at no other.
RECURSIVE RunFailingAt(_, _, _, _)
RunFailingAt(st, fr, lf, pcs) ==
  IF fr.pc = "done" THEN {[st |-> st, fr |-> fr, lf |-> lf]}
  ELSE UNION {RunFailingAt(n.st, n.fr, StepLife(lf, fr, n.fr), pcs) :
                n \in Steps(st, fr, fr.pc \in pcs)}

\* C21: when the backend fails in an unset_model_state of delete_model's
\* loop over the registered user states, at the probe of the state or at
\* the removal, and nowhere else, the deletion of an uploaded model still
\* completes: the tombstone is written and the model's metadata object is
\* removed.
C21_UnsetFailureTolerated ==
  \A d \in Domains, m \in Models :
    Uploaded(d, m) =>
      \A n \in RunFailingAt(store, Start(DeleteCall(d, m), life), life, {"ums_exists", "ums_remove"}) :
        /\ n.fr.res = "ok"
        /\ Exists(n.st, Tombstone(d, m))
        /\ ~Exists(n.st, Canonical(d, m))


\* C22: state_exists(s) is true iff the backend has an object at the
\* registry key of s, also when the probe fails for a reason other than a
\* missing key; so for a registered state, whatever the backend does,
\* create_model_state writes nothing, set_model_state does not raise "State
\* does not exist" and list_models does not refuse the state.
C22_ProbeFailurePropagates ==
  \A s \in UserStates \cup ReservedModelStates :
    Exists(store, get_model_state_path(s)) =>
      /\ \A f \in {"none", "FilePullFailed", "BackendError"} : state_exists(store, s, f)
      /\ \A t \in Times : \A n \in Outcomes(CreateCall(s, t), TRUE) : n.st = store
      /\ \A d \in Domains, m \in Models :
           \A n \in Outcomes(SetStateCall(d, m, s), TRUE) : n.fr.res # "ValueError"
      /\ \A d \in Domains :
           \A n \in Outcomes(ListCall(d, s), TRUE) : n.fr.res # "Exception"


\* C23: list_model_states returns the registered state names that are not
\* reserved, all of them and no other: never the reserved state, whose
\* registry entry set_model_state creates during a deletion.
C23_UserStatesListed ==
  \A n \in Outcomes(ListStatesCall, FALSE) :
    /\ n.fr.res = "ok"
    /\ Ran(n.fr.lst) =
         {s \in StateNames : Exists(store, get_model_state_path(s)) /\ ~is_reserved_state(s)}
    /\ \A s \in ReservedModelStates : s \notin Ran(n.fr.lst)

\* A deletion has registered the reserved state beside a user state.
C23_Witness ==
  \E s \in UserStates, d \in Domains, m \in Models :
    /\ life[d, m] = "deleted"
    /\ Exists(store, get_model_state_path(DELETED)) /\ Exists(store, get_model_state_path(s))
    /\ \E n \in Outcomes(ListStatesCall, FALSE) : n.fr.lst = <<s>>


ListDomainsCall == Call("list_domains", "-", "-", "-", 0, "-")

StepTwo(c) ==
  IF c.a.pc = "done" /\ c.b.pc = "done" THEN {c}
  ELSE (IF c.a.pc = "done" THEN {}
        ELSE {[st |-> n.st, a |-> n.fr, b |-> c.b] : n \in Steps(c.st, c.a, FALSE)})
       \cup
       (IF c.b.pc = "done" THEN {}
        ELSE {[st |-> n.st, a |-> c.a, b |-> n.fr] : n \in Steps(c.st, c.b, FALSE)})

RECURSIVE RunBoth(_)
RunBoth(cs) ==
  IF \A c \in cs : c.a.pc = "done" /\ c.b.pc = "done" THEN cs
  ELSE RunBoth(UNION {StepTwo(c) : c \in cs})

RunTwo(st, fa, fb) == RunBoth({[st |-> st, a |-> fa, b |-> fb]})

\* C25: two create_model_state(s) calls, and two set_model_state(d, m, s)
\* calls for an uploaded model m and a registered state s, made together
\* with their backend calls interleaved in any way: neither call fails; the
\* registry has one entry for s, written by one of the calls or found by
\* both; the copy under s is the model's metadata and nothing else changed.
C25_RedundantCallsTolerated ==
  /\ \A s \in UserStates, t2 \in Times :
       \A n \in RunTwo(store, Start(CreateCall(s, StateTime), life), Start(CreateCall(s, t2), life)) :
         /\ n.a.res = "ok" /\ n.b.res = "ok"
         /\ n.st \in IF Exists(store, get_model_state_path(s)) THEN {store}
                     ELSE {Push(store, get_model_state_path(s), StateData(s, StateTime)),
                           Push(store, get_model_state_path(s), StateData(s, t2))}
         /\ \A l \in RunCall(n.st, life, ListStatesCall, FALSE) : Count(l.fr.lst, s) = 1
  /\ \A d \in Domains, m \in Models, s \in UserStates :
       (Uploaded(d, m) /\ Exists(store, get_model_state_path(s))) =>
         \A n \in RunTwo(store, Start(SetStateCall(d, m, s), life), Start(SetStateCall(d, m, s), life)) :
           /\ n.a.res = "ok" /\ n.b.res = "ok"
           /\ n.st = Push(store, _get_metadata_path(d, m, s), store[Canonical(d, m)])

\* Both create_model_state calls find no entry and both push theirs; then
\* both set_model_state calls push the copy of an uploaded model.
C25_Witness ==
  \E d \in Domains, m \in Models, s \in UserStates, t2 \in Times :
    /\ Uploaded(d, m) /\ ~Exists(store, get_model_state_path(s)) /\ StateTime < t2
    /\ \E n \in RunTwo(store, Start(CreateCall(s, StateTime), life), Start(CreateCall(s, t2), life)) :
         /\ n.a.at = "cms_push" /\ n.b.at = "cms_push"
         /\ \E k \in RunTwo(n.st, Start(SetStateCall(d, m, s), life), Start(SetStateCall(d, m, s), life)) :
              k.a.res = "ok" /\ k.b.res = "ok" /\ Exists(k.st, _get_metadata_path(d, m, s))


\* C26: set_meta_data(d, m, record) writes the record to the model's path
\* and to the domain's path and leaves every other object as it was: the
\* copies under states, the registry entries and the archives; a copy of m
\* under a state made earlier keeps the record it was made from.
C26_TwoKeysWritten ==
  \A c \in SetMetaDataCalls :
    \A n \in Outcomes(c, FALSE) :
      /\ n.fr.res = "ok"
      /\ n.st[Canonical(c.d, c.m)] = MetaRecord(c.d, c.m, c.t)
      /\ n.st[get_domain_path(c.d)] = MetaRecord(c.d, c.m, c.t)
      /\ \A k \in Keys \ {Canonical(c.d, c.m), get_domain_path(c.d)} : n.st[k] = store[k]

\* The model has a copy under a user state and is stored again with another
\* timestamp: the copy then differs from the model's metadata.
C26_Witness ==
  \E c \in SetMetaDataCalls, s \in UserStates :
    /\ Exists(store, _get_metadata_path(c.d, c.m, s))
    /\ store[_get_metadata_path(c.d, c.m, s)] = store[Canonical(c.d, c.m)]
    /\ store[Canonical(c.d, c.m)].created # c.t
    /\ \E n \in Outcomes(c, FALSE) :
         /\ n.st[_get_metadata_path(c.d, c.m, s)] = store[_get_metadata_path(c.d, c.m, s)]
         /\ n.st[_get_metadata_path(c.d, c.m, s)] # n.st[Canonical(c.d, c.m)]


\* C27: set_model_state(d, m, s) for a registered user state s and
\* delete_model(d, m) on an uploaded model m, made together with their
\* backend calls interleaved in any way: once both have finished there is
\* no copy of m under s and list_models(d, s) does not contain m.
C27_NoCopyAfterConcurrentDelete ==
  \A d \in Domains, m \in Models, s \in UserStates :
    (Uploaded(d, m) /\ Exists(store, get_model_state_path(s))) =>
      \A n \in RunTwo(store, Start(SetStateCall(d, m, s), life), Start(DeleteCall(d, m), life)) :
        /\ ~Exists(n.st, _get_metadata_path(d, m, s))
        /\ \A l \in RunCall(n.st, life, ListCall(d, s), FALSE) : Count(l.fr.lst, m) = 0


\* C27 as the code has it: with the same two calls interleaved in any way,
\* delete_model succeeds, the model's metadata is gone and the tombstone is
\* in place; a copy of m under s is left only when set_model_state
\* succeeded, it is then the metadata the model had before the deletion and
\* list_models(d, s) contains m; when set_model_state failed at its pull no
\* copy is left and list_models(d, s) does not contain m.
C27_CopyLeftOnlyBySuccessfulSet ==
  \A d \in Domains, m \in Models, s \in UserStates :
    (Uploaded(d, m) /\ Exists(store, get_model_state_path(s))) =>
      \A n \in RunTwo(store, Start(SetStateCall(d, m, s), life), Start(DeleteCall(d, m), life)) :
        /\ n.b.res = "ok"
        /\ ~Exists(n.st, Canonical(d, m)) /\ Exists(n.st, Tombstone(d, m))
        /\ n.a.res \in {"ok", "FilePullFailed"}
        /\ n.a.res = "FilePullFailed" => n.a.at = "sms_pull" /\ ~Exists(n.st, _get_metadata_path(d, m, s))
        /\ Exists(n.st, _get_metadata_path(d, m, s)) =>
             n.st[_get_metadata_path(d, m, s)] = store[Canonical(d, m)]
        /\ \A l \in RunCall(n.st, life, ListCall(d, s), FALSE) :
             Count(l.fr.lst, m) = IF Exists(n.st, _get_metadata_path(d, m, s)) THEN 1 ELSE 0

\* Both calls succeed, the model's metadata is gone and its copy under the
\* state is left behind.
C27_Witness ==
  \E d \in Domains, m \in Models, s \in UserStates :
    /\ Uploaded(d, m) /\ Exists(store, get_model_state_path(s))
    /\ ~Exists(store, _get_metadata_path(d, m, s))
    /\ \E n \in RunTwo(store, Start(SetStateCall(d, m, s), life), Start(DeleteCall(d, m), life)) :
         /\ n.a.res = "ok" /\ n.b.res = "ok"
         /\ ~Exists(n.st, Canonical(d, m))
         /\ Exists(n.st, _get_metadata_path(d, m, s))


\* C28: after any sequence of complete calls made one at a time with no
\* backend failure, a copy of model m under a user state s exists only
\* where the metadata of m exists and s has a registry entry;
\* set_model_state(d, m, s) for a registered s and a model that was never
\* uploaded or has been deleted raises at the pull of the model's metadata
\* and writes nothing; after delete_model(d, m) no copy of m under a user
\* state is left.
C28_CopyNeedsModelAndState ==
  \A d \in Domains, m \in Models, s \in UserStates :
    /\ Exists(store, _get_metadata_path(d, m, s)) =>
         Exists(store, Canonical(d, m)) /\ Exists(store, get_model_state_path(s))
    /\ (~Exists(store, Canonical(d, m)) /\ Exists(store, get_model_state_path(s))) =>
         \A n \in Outcomes(SetStateCall(d, m, s), FALSE) :
           n.fr.res # "ok" /\ n.fr.at = "sms_pull" /\ n.st = store
    /\ \A n \in Outcomes(DeleteCall(d, m), FALSE) :
         n.fr.res = "ok" =>
           ~Exists(n.st, _get_metadata_path(d, m, s)) /\ ~Exists(n.st, Canonical(d, m))

\* A model with a copy under a registered state is deleted, and
\* set_model_state is then called for it again.
C28_Witness ==
  \E d \in Domains, m \in Models, s \in UserStates :
    /\ Exists(store, _get_metadata_path(d, m, s))
    /\ \E n \in Outcomes(DeleteCall(d, m), FALSE) :
         /\ n.fr.res = "ok"
         /\ ~Exists(n.st, _get_metadata_path(d, m, s))
         /\ \E k \in RunCall(n.st, n.lf, SetStateCall(d, m, s), FALSE) :
              k.fr.res # "ok" /\ k.fr.at = "sms_pull" /\ k.st = n.st

====
